---- MODULE Spec2Model ----
(***************************************************************************)
(* A model of elegant/gui/stage_field.py: the StageField annotation field, *)
(* its constructor, and the two passes (set_stage backwards, update_widget *)
(* forwards) that keep the life-stage labels of a flipbook ordered.        *)
(*                                                                         *)
(* Stage positions are 0-based as in the Python code; TLA+ sequences are   *)
(* 1-based, so StageAt does the index translation (and Python's negative   *)
(* indexing).  Pages are numbered 1..NumPages; Python's fb_i is page - 1.  *)
(***************************************************************************)
EXTENDS Integers, Sequences, FiniteSets, TLC

VARIABLES
    self,         \* the fields of the StageField instance built last
    cycle,        \* position of the class-level COLOR_CYCLE iterator
    other,        \* stages and colors of an instance built earlier in the run
    args,         \* arguments of the latest __init__ call
    annotations,  \* page -> page.annotations[self.name] (None when unset)
    color,        \* page -> page.color
    labelText,    \* text of self.label
    page,         \* self.page: the flipbook page being annotated
    value,        \* argument of the latest update_widget call
    before,       \* labels and colours as they were when the latest call began
    lastOp        \* the operation that ran last, or the error it raised

vars == <<self, cycle, other, args, annotations, color, labelText, page, value, before,
          lastOp>>

\* Number of pages of the flipbook.
NumPages == 4

Pages == 1..NumPages

\* Python's None as an annotation / argument, and as a page colour.
None == "None"
NoColor == <<>>

-----------------------------------------------------------------------------
(* Class attributes and constructor defaults                               *)

FIRST_COLOR == <<255, 255, 255>>
LAST_COLOR == <<184, 184, 184>>
\* The list handed to itertools.cycle.
PALETTE == << <<184, 255, 184>>, <<255, 255, 184>>, <<184, 184, 255>>,
              <<255, 184, 184>>, <<255, 184, 255>> >>

DefaultName == "stage"
DefaultStages == <<"egg", "larva", "adult", "dead">>
\* Transition names are strings; a string is modelled as the sequence of its
\* letters, so that transition[0] is an indexing that can fail.
Hatch == <<"h", "a", "t", "c", "h">>
Adult == <<"a", "d", "u", "l", "t">>
Dead == <<"d", "e", "a", "d">>
DefaultTransitions == <<Hatch, Adult, Dead>>

\* A value that is not a stage of the default stage list.
Zombie == "zombie"

Range(s) == {s[i] : i \in 1..Len(s)}

\* seq[i] with Python's indexing: 0-based, negative indices count from the end.
PyIndex(seq, i) == IF i >= 0 THEN seq[i + 1] ELSE seq[Len(seq) + i + 1]

\* {stage: i for i, stage in enumerate(stages)}: a later duplicate wins.
StageIndices(stgs) ==
    [s \in Range(stgs) |->
        (CHOOSE i \in 1..Len(stgs) :
            /\ stgs[i] = s
            /\ \A j \in 1..Len(stgs) : stgs[j] = s => j <= i) - 1]

-----------------------------------------------------------------------------
(* StageField.__init__                                                     *)

\* A freshly allocated instance, before __init__ has assigned any field.
NewObject == [class |-> "StageField"]

\* The fields of an instance that have been assigned.
Fields(obj) == DOMAIN obj \ {"class"}

\* assert len(transitions) == len(stages) - 1
CountsMatch(stgs, trans) == Len(trans) = Len(stgs) - 1

\* shortcuts = [transition[0] for transition in transitions] raises IndexError
\* on a transition whose name is the empty string.
FirstLetterFails(trans) == \E i \in 1..Len(trans) : Len(trans[i]) = 0

FirstLetters(trans) == [i \in 1..Len(trans) |-> PyIndex(trans[i], 0)]

\* stages[1:-1]
Interior(stgs) == IF Len(stgs) <= 2 THEN <<>> ELSE SubSeq(stgs, 2, Len(stgs) - 1)

\* The k-th value (k = 1, 2, ...) that next() yields from COLOR_CYCLE when the
\* iterator has already yielded `pos` values.
CycleNext(pos, k) == PALETTE[((pos + k - 1) % Len(PALETTE)) + 1]

\* {stages[0]: FIRST_COLOR, stages[-1]: LAST_COLOR}, then
\* .update(zip(stages[1:-1], COLOR_CYCLE)); zip draws one palette entry per
\* interior stage from the shared iterator, and later keys overwrite earlier.
Colors(stgs, pos) ==
    LET inner == Interior(stgs)
        zipped == [s \in Range(inner) |->
                     CycleNext(pos, CHOOSE k \in 1..Len(inner) :
                                      /\ inner[k] = s
                                      /\ \A j \in 1..Len(inner) : inner[j] = s => j <= k)]
        literal == (PyIndex(stgs, -1) :> LAST_COLOR) @@ (PyIndex(stgs, 0) :> FIRST_COLOR)
    IN  zipped @@ literal

\* The position of the shared iterator after the zip.
CycleAfter(stgs, pos) == (pos + Len(Interior(stgs))) % Len(PALETTE)

\* __init__(name, stages, transitions, shortcuts) run on a new object with the
\* class iterator at `pos`: the fields assigned, the iterator afterwards and
\* the exception raised ("" when construction succeeds).  The optional
\* argument shortcuts is {} for None and {list} for a given list.
Construct(name, stgs, trans, shortcuts, pos) ==
    IF ~CountsMatch(stgs, trans)
    THEN [obj |-> NewObject, cycle |-> pos, raised |-> "AssertionError"]
    ELSE LET o1 == NewObject @@ [stages |-> stgs,
                                 stage_indices |-> StageIndices(stgs),
                                 transitions |-> trans]
         IN  IF shortcuts = {} /\ FirstLetterFails(trans)
             THEN [obj |-> o1, cycle |-> pos, raised |-> "IndexError"]
             ELSE [obj |-> o1 @@ [shortcuts |-> IF shortcuts = {}
                                                THEN FirstLetters(trans)
                                                ELSE CHOOSE k \in shortcuts : TRUE,
                                  colors |-> Colors(stgs, pos),
                                  name |-> name],
                   cycle |-> CycleAfter(stgs, pos),
                   raised |-> ""]

\* Whether __init__ ran to completion on obj.
Constructed(obj) == "name" \in DOMAIN obj

-----------------------------------------------------------------------------
(* StageField.update_widget                                                *)

\* self.stage_indices.get(page_stage, -1): unset is below every stage.
ForwardIndex(page_stage) ==
    IF page_stage \in DOMAIN self.stage_indices
    THEN self.stage_indices[page_stage]
    ELSE -1

\* The start value of oldest_stage_i.
OldestStart == -1

\* Variant: the loop remembers the stage of the page just visited instead of
\* the oldest stage seen so far.
OldestAfterPrevious(page_stage_i, oldest_stage_i) == page_stage_i

\* if page_stage_i > oldest_stage_i: oldest_stage_i = page_stage_i
OldestAfter(page_stage_i, oldest_stage_i) ==
    IF page_stage_i > oldest_stage_i THEN page_stage_i ELSE oldest_stage_i

\* Variant: a plain else in place of the elif with its strict inequality.
TooYoungElse(page_stage_i, oldest_stage_i) == ~(page_stage_i > oldest_stage_i)

\* elif page_stage_i < oldest_stage_i: the page is overwritten.
TooYoung(page_stage_i, oldest_stage_i) ==
    /\ ~(page_stage_i > oldest_stage_i)
    /\ page_stage_i < oldest_stage_i

\* The loop over self.flipbook.pages, from page i on.
RECURSIVE ForwardPass(_, _, _)
ForwardPass(ann, i, oldest_stage_i) ==
    IF i > NumPages THEN ann
    ELSE LET page_stage_i == ForwardIndex(ann[i])
         IN  ForwardPass(
                 IF TooYoung(page_stage_i, oldest_stage_i)
                 THEN [ann EXCEPT ![i] = PyIndex(self.stages, oldest_stage_i)]
                 ELSE ann,
                 i + 1,
                 OldestAfter(page_stage_i, oldest_stage_i))

\* page.color = None if page_stage is None else self.colors[page_stage]
PageColor(page_stage) == IF page_stage = None THEN NoColor ELSE self.colors[page_stage]

\* if value is None ... elif value not in self.stages: raise ValueError
InvalidValue(v) == v # None /\ v \notin Range(self.stages)

\* Variant: the value is validated after the loop over the pages.
update_widget_validate_last(ann, col, txt, v) ==
    LET fixed == ForwardPass(ann, 1, OldestStart)
    IN  [annotations |-> fixed,
         color |-> [p \in Pages |-> PageColor(fixed[p])],
         labelText |-> txt,
         raised |-> IF InvalidValue(v) THEN "ValueError" ELSE ""]

\* Variant: the pages are coloured but their labels are not repaired.
update_widget_colour_only(ann, col, txt, v) ==
    IF InvalidValue(v)
    THEN [annotations |-> ann, color |-> col, labelText |-> txt,
          raised |-> "ValueError"]
    ELSE [annotations |-> ann,
          color |-> [p \in Pages |-> PageColor(ann[p])],
          labelText |-> IF v = None THEN "" ELSE v,
          raised |-> ""]

\* update_widget(value) on the labels ann, page colours col and label text
\* txt: what it leaves behind and the exception it raised ("" when none).
update_widget(ann, col, txt, v) ==
    IF InvalidValue(v)
    THEN [annotations |-> ann, color |-> col, labelText |-> txt,
          raised |-> "ValueError"]
    ELSE LET fixed == ForwardPass(ann, 1, OldestStart)
         IN  [annotations |-> fixed,
              color |-> [p \in Pages |-> PageColor(fixed[p])],
              labelText |-> IF v = None THEN "" ELSE v,
              raised |-> ""]

-----------------------------------------------------------------------------
(* StageField.set_stage                                                    *)

\* self.update_annotation(stage): the stage is written onto the current page.
update_annotation(ann, p, stage) == [ann EXCEPT ![p] = stage]

\* Variant: the backward pass uses the forward pass's default for unset.
BackwardIndexLow(page_stage) ==
    IF page_stage \in DOMAIN self.stage_indices
    THEN self.stage_indices[page_stage]
    ELSE -1

\* self.stage_indices.get(page_stage, len(self.stages)): unset is above every stage.
BackwardIndex(page_stage) ==
    IF page_stage \in DOMAIN self.stage_indices
    THEN self.stage_indices[page_stage]
    ELSE Len(self.stages)

\* Variant: the earlier pages are allowed the new stage itself.
YoungestStartSame(stage) == self.stage_indices[stage]

\* youngest_stage_i = self.stage_indices[stage] - 1
YoungestStart(stage) == self.stage_indices[stage] - 1

\* The loop over self.flipbook.pages[fb_i-1::-1], from page i down to page 1.
RECURSIVE BackwardPass(_, _, _)
BackwardPass(ann, i, youngest_stage_i) ==
    IF i < 1 THEN ann
    ELSE LET page_stage_i == BackwardIndex(ann[i])
         IN  IF page_stage_i < youngest_stage_i
             THEN BackwardPass(ann, i - 1, page_stage_i)
             ELSE BackwardPass(
                      [ann EXCEPT ![i] = PyIndex(self.stages, youngest_stage_i)],
                      i - 1, youngest_stage_i)

\* Variant: the guard is off by one and skips the second page too.
FixEarlierPagesFromThird(ann, p, stage) ==
    IF p - 1 > 1 THEN BackwardPass(ann, p - 1, YoungestStart(stage)) ELSE ann

\* if fb_i > 0: the pages before page p are fixed up (fb_i = p - 1).
FixEarlierPages(ann, p, stage) ==
    IF p - 1 > 0 THEN BackwardPass(ann, p - 1, YoungestStart(stage)) ELSE ann

\* The stages a transition button can set: zip(..., self.stages[1:]).
Targets == Range(Tail(self.stages))

-----------------------------------------------------------------------------
(* The flipbook under annotation: an instance built with the default       *)
(* arguments, and pages carrying any labelling.                            *)

Labels == Range(DefaultStages) \cup {None}

DefaultArgs ==
    [stages |-> DefaultStages, transitions |-> DefaultTransitions, shortcuts |-> {}]

FirstBuild == Construct(DefaultName, DefaultStages, DefaultTransitions, {}, 0)

Init ==
    /\ self = FirstBuild.obj
    /\ cycle = FirstBuild.cycle
    /\ other = NewObject
    /\ args = DefaultArgs
    /\ annotations \in [Pages -> Labels]
    /\ color = [p \in Pages |-> NoColor]
    /\ labelText = ""
    /\ page = 1
    /\ value = None
    /\ before = [annotations |-> annotations, color |-> color]
    /\ lastOp = "__init__"

\* The user invokes the transition to `stage` with page p current.
SetStage(p, stage) ==
    LET written == update_annotation(annotations, p, stage)
        earlier == FixEarlierPages(written, p, stage)
        r == update_widget(earlier, color, labelText, stage)
    IN  /\ page' = p
        /\ value' = stage
        /\ before' = [annotations |-> annotations, color |-> color]
        /\ annotations' = r.annotations
        /\ color' = r.color
        /\ labelText' = r.labelText
        /\ lastOp' = IF r.raised = "" THEN "set_stage" ELSE r.raised
        /\ UNCHANGED <<self, cycle, other, args>>

\* The host calls update_widget(v).
UpdateWidget(v) ==
    LET r == update_widget(annotations, color, labelText, v)
    IN  /\ value' = v
        /\ before' = [annotations |-> annotations, color |-> color]
        /\ annotations' = r.annotations
        /\ color' = r.color
        /\ labelText' = r.labelText
        /\ lastOp' = IF r.raised = "" THEN "update_widget" ELSE r.raised
        /\ UNCHANGED <<self, cycle, other, args, page>>

Next ==
    \/ \E p \in Pages, stage \in Targets : SetStage(p, stage)
    \/ \E v \in Labels \cup {Zombie} : UpdateWidget(v)

Spec == Init /\ [][Next]_vars

-----------------------------------------------------------------------------
(* Construction: instances are built one after another in the same run,    *)
(* sharing the class-level COLOR_CYCLE.                                    *)

\* Stage lists: the default list cut to every length, the empty list included.
StageLists == {SubSeq(DefaultStages, 1, n) : n \in 0..Len(DefaultStages)}

\* Transition names, the empty string among them.
TransitionNames == {<<>>, Hatch}

TransitionLists ==
    UNION {[1..n -> TransitionNames] : n \in 0..Len(DefaultTransitions)}

\* shortcuts=None, or a list of keys.
ShortcutArgs == {{}, {<<"h", "a", "d">>}}

InitClass ==
    /\ self = NewObject
    /\ cycle = 0
    /\ other = NewObject
    /\ args = DefaultArgs
    /\ annotations = [p \in Pages |-> None]
    /\ color = [p \in Pages |-> NoColor]
    /\ labelText = ""
    /\ page = 1
    /\ value = None
    /\ before = [annotations |-> annotations, color |-> color]
    /\ lastOp = "class"

\* StageField(stages=stgs, transitions=trans, shortcuts=shortcuts)
New(stgs, trans, shortcuts) ==
    LET r == Construct(DefaultName, stgs, trans, shortcuts, cycle)
    IN  /\ args' = [stages |-> stgs, transitions |-> trans, shortcuts |-> shortcuts]
        /\ self' = r.obj
        /\ cycle' = r.cycle
        /\ other' = IF Constructed(self)
                     THEN [class |-> self.class, stages |-> self.stages,
                           colors |-> self.colors]
                     ELSE other
        /\ lastOp' = IF r.raised = "" THEN "__init__" ELSE r.raised
        /\ UNCHANGED <<annotations, color, labelText, page, value, before>>

NextClass ==
    \E stgs \in StageLists, trans \in TransitionLists, shortcuts \in ShortcutArgs :
        New(stgs, trans, shortcuts)

SpecClass == InitClass /\ [][NextClass]_vars

-----------------------------------------------------------------------------
(* Properties                                                              *)

\* The position of a stage in the stage list (0 for the first stage).
Position(stage) == CHOOSE i \in 0..(Len(self.stages) - 1) : self.stages[i + 1] = stage

Max(S) == CHOOSE m \in S : \A n \in S : n <= m

IsSet(label) == label # None

\* The labels are in stage order wherever two neighbouring pages are both set.
Monotonic(ann) ==
    \A i \in 1..(NumPages - 1) :
        (IsSet(ann[i]) /\ IsSet(ann[i + 1])) => Position(ann[i]) <= Position(ann[i + 1])

\* The highest-positioned stage among the labels of pages 1..i, None if all unset.
RunningMax(ann, i) ==
    LET seen == {Position(ann[j]) : j \in {k \in 1..i : IsSet(ann[k])}}
    IN  IF seen = {} THEN None ELSE self.stages[Max(seen) + 1]

\* C1: after every set_stage call, from any labelling, any two neighbouring
\* pages that are both labelled are in stage order.
C1_MonotonicAfterSetStage == lastOp = "set_stage" => Monotonic(annotations)

\* A set_stage call that found the labels out of order and left three
\* different stages on the pages.
C1_Witness ==
    /\ lastOp = "set_stage"
    /\ ~Monotonic(before.annotations)
    /\ Cardinality({annotations[p] : p \in Pages}) >= 3

\* C2: an update_widget call that directly follows an update_widget call with
\* the same value changes no label.
C2_UpdateWidgetIdempotent ==
    [][(lastOp = "update_widget" /\ lastOp' = "update_widget" /\ value' = value)
         => annotations' = annotations]_vars

\* A first update_widget call that repaired labels; the second starts here.
C2_Witness ==
    /\ lastOp = "update_widget"
    /\ before.annotations # annotations

\* C3: update_widget leaves unset every page that was unset and had only
\* unset pages before it.
C3_LeadingUnsetKept ==
    lastOp = "update_widget" =>
        \A i \in Pages :
            (\A j \in 1..i : ~IsSet(before.annotations[j])) => ~IsSet(annotations[i])

\* update_widget ran on unset pages in front of a labelled one, and stamped
\* an unset page behind it.
C3_Witness ==
    /\ lastOp = "update_widget"
    /\ ~IsSet(before.annotations[1]) /\ ~IsSet(before.annotations[2])
    /\ IsSet(before.annotations[3])
    /\ ~IsSet(before.annotations[NumPages]) /\ IsSet(annotations[NumPages])
    /\ ~IsSet(annotations[1]) /\ ~IsSet(annotations[2])

\* C4: update_widget with a value that is neither None nor a stage raises
\* ValueError and changes no label and no colour.
C4_InvalidValueNoMutation ==
    (value # None /\ value \notin Range(self.stages)) =>
        /\ lastOp = "ValueError"
        /\ annotations = before.annotations
        /\ color = before.color

\* The invalid value arrived while labels were out of order and an unset page
\* stood behind a labelled one: a pass over the pages would have changed both.
C4_Witness ==
    /\ lastOp = "ValueError"
    /\ value = Zombie
    /\ ~Monotonic(annotations)
    /\ \E p \in Pages : ~IsSet(annotations[p]) /\ IsSet(RunningMax(annotations, p))

\* C5 (as claimed): construction succeeds whenever the counts match, and
\* otherwise fails with no field of the instance set.
C5_ConstructionIffCountsMatch ==
    lastOp \in {"__init__", "AssertionError", "IndexError"} =>
        IF CountsMatch(args.stages, args.transitions)
        THEN lastOp = "__init__" /\ Constructed(self)
        ELSE lastOp # "__init__" /\ Fields(self) = {}

\* C6 (as claimed): the first stage has the first colour, the last stage the
\* last colour, and an instance built earlier in the run from the same stage
\* list has the same colours.
C6_ColoursFromStagesAlone ==
    Constructed(self) =>
        /\ Len(self.stages) >= 2 => self.colors[PyIndex(self.stages, 0)] = FIRST_COLOR
        /\ self.colors[PyIndex(self.stages, -1)] = LAST_COLOR
        /\ ("colors" \in DOMAIN other /\ other.stages = self.stages)
              => other.colors = self.colors

\* C7: set_stage(page, s) on a flipbook with no labels leaves the stage before
\* s on every earlier page, and s on the page and on every later page.
C7_SetStageOnBlank ==
    (lastOp = "set_stage" /\ \A p \in Pages : ~IsSet(before.annotations[p])) =>
        \A p \in Pages :
            annotations[p] = IF p < page
                             THEN self.stages[(Position(value) - 1) + 1]
                             ELSE value

\* The scenario: blank flipbook, 'adult' set on the third page.
C7_Witness ==
    /\ lastOp = "set_stage"
    /\ \A p \in Pages : ~IsSet(before.annotations[p])
    /\ page = 3 /\ value = "adult"
    /\ annotations[1] = "larva" /\ annotations[2] = "larva"
    /\ annotations[3] = "adult" /\ annotations[NumPages] = "adult"

\* C8: after update_widget every page carries the highest-positioned stage
\* among the labels it and the pages before it had, or nothing if they had none.
C8_RunningMaximum ==
    lastOp = "update_widget" =>
        \A p \in Pages : annotations[p] = RunningMax(before.annotations, p)

\* One call that stamped an unset page, promoted a too-young page and kept a
\* page that was already old enough.
C8_Witness ==
    /\ lastOp = "update_widget"
    /\ before.annotations[1] = "larva"
    /\ before.annotations[2] = None /\ annotations[2] = "larva"
    /\ before.annotations[3] = "egg" /\ annotations[3] = "larva"
    /\ before.annotations[NumPages] = "adult" /\ annotations[NumPages] = "adult"

\* C9: after set_stage(page, target) the page carries target, every earlier
\* page a stage before target and every later page target or a later stage.
C9_TransitionPoint ==
    lastOp = "set_stage" =>
        /\ annotations[page] = value
        /\ \A p \in Pages :
               /\ IsSet(annotations[p])
               /\ p < page => Position(annotations[p]) < Position(value)
               /\ p > page => Position(annotations[p]) >= Position(value)

\* set_stage on an inner page with an older stage and an unset page before it
\* and an unset page after it.
C9_Witness ==
    /\ lastOp = "set_stage"
    /\ page = 3 /\ value = "larva"
    /\ before.annotations[1] = "dead" /\ ~IsSet(before.annotations[2])
    /\ ~IsSet(before.annotations[NumPages])
    /\ before.annotations[3] = "dead"

\* C10: set_stage never raises a labelled page before the current page and
\* never lowers a page after it, and its forward pass changes no page before
\* the current page.
C10_RepairDirection ==
    lastOp = "set_stage" =>
        LET old == before.annotations
            written == update_annotation(old, page, value)
            earlier == FixEarlierPages(written, page, value)
        IN  \A p \in Pages :
               /\ (p < page /\ IsSet(old[p])) =>
                      /\ IsSet(annotations[p])
                      /\ Position(annotations[p]) <= Position(old[p])
               /\ (p > page /\ IsSet(old[p])) =>
                      /\ IsSet(annotations[p])
                      /\ Position(annotations[p]) >= Position(old[p])
               /\ p < page => annotations[p] = earlier[p]

\* One call that lowered an earlier page and promoted a later one.
C10_Witness ==
    /\ lastOp = "set_stage"
    /\ page = 2 /\ value = "adult"
    /\ before.annotations[1] = "dead" /\ annotations[1] = "larva"
    /\ before.annotations[3] = "egg" /\ annotations[3] = "adult"
    /\ before.annotations[NumPages] = "dead" /\ annotations[NumPages] = "dead"

====
